---- MODULE Spec2Model ----
\* Model of env_perm (src/src/lib.rs): permanently setting environment
\* variables, on Unix by appending export lines to the shell profile, on
\* Windows by writing values of HKEY_CURRENT_USER\Environment.
\* Strings are sequences of one-character strings.
EXTENDS Integers, Sequences, FiniteSets, TLC

VARIABLES platform, home, files, content, env, keyAccess, registry, last,
          pc, local, writes

vars == <<platform, home, files, content, env, keyAccess, registry, last,
          pc, local, writes>>

\* ---------------------------------------------------------------- bounds
MaxLines == 2
MaxWrites == 2

\* ------------------------------------------------------- input alphabets
Names == {<<"P">>}
Values == {<<"X">>, <<"$", "H">>}
Segments == {<<"a">>}

\* ------------------------------------------------------------ Unix files
ProfileNames == {".bash_profile", ".bash_login", ".profile"}
FileStates == {"absent", "rw", "ro"}

InitContent(fs) == [f \in ProfileNames |-> IF fs[f] = "absent" THEN <<>> ELSE <<"#">>]

\* "\nexport {}={}" followed by the newline writeln! adds
SetFmt(a1, a2) ==
    <<"\n", "e", "x", "p", "o", "r", "t", " ">> \o a1 \o <<"=">> \o a2 \o <<"\n">>

\* "\nexport {}=\"{}:${}\"" followed by the newline writeln! adds
AppendFmt(a1, a2, a3) ==
    <<"\n", "e", "x", "p", "o", "r", "t", " ">> \o a1 \o <<"=", "\"">> \o a2
        \o <<":", "$">> \o a3 \o <<"\"", "\n">>

\* "\nexport {}=\"${}:{}\"" followed by the newline writeln! adds
PrependFmt(a1, a2, a3) ==
    <<"\n", "e", "x", "p", "o", "r", "t", " ">> \o a1 \o <<"=", "\"", "$">> \o a2
        \o <<":">> \o a3 \o <<"\"", "\n">>

SetLineQuoted(var, value) == SetFmt(var, <<"\"">> \o value \o <<"\"">>)

\* writeln!(profile, "\nexport {}={}", var, value)
SetLine(var, value) == SetFmt(var, value)

AppendLineSwapped(var, value) == AppendFmt(var, var, value)

\* writeln!(profile, "\nexport {}=\"{}:${}\"", var, value, var)
AppendLine(var, value) == AppendFmt(var, value, var)

\* writeln!(profile, "\nexport {}=\"${}:{}\"", var, value, var)
PrependLine(var, value) == PrependFmt(var, value, var)

\* oo.create(false) for the first three attempts, oo.create(true) before the
\* fourth
CreateFlagAlways(attempt) == TRUE

CreateFlag(attempt) == attempt = 4

\* the file name pushed on the home path before each attempt
Candidate(attempt) ==
    CASE attempt = 1 -> ".bash_profile"
      [] attempt = 2 -> ".bash_login"
      [] attempt = 3 -> ".profile"
      [] OTHER -> ".bash_profile"

\* OpenOptions::open with append(true) and the given create flag: an existing
\* writable file opens; a missing file is created only with create set and a
\* writable home directory; anything else is an error
Open(fs, f, create) ==
    IF fs[f] = "rw" THEN [ok |-> TRUE, file |-> f, fs |-> fs]
    ELSE IF fs[f] = "absent" /\ create /\ home = "rw"
         THEN [ok |-> TRUE, file |-> f, fs |-> [fs EXCEPT ![f] = "rw"]]
         ELSE [ok |-> FALSE, file |-> "none", fs |-> fs]

RECURSIVE Attempt(_, _)
\* the or_else chain of find_profile, from the given attempt on
Attempt(fs, attempt) ==
    LET r == Open(fs, Candidate(attempt), CreateFlag(attempt))
    IN  IF r.ok \/ attempt = 4 THEN r ELSE Attempt(r.fs, attempt + 1)

find_profile(fs) == Attempt(fs, 1)

\* dirs::home_dir().ok_or_else(..).and_then(find_profile)
get_profile ==
    IF home = "none" THEN [ok |-> FALSE, file |-> "none", fs |-> files]
    ELSE find_profile(files)

WrittenTruncate(old, line) == line

\* a write through a handle opened with append(true) lands after the old content
Written(old, line) == old \o line

NumLines(s) == Cardinality({i \in DOMAIN s : s[i] = "\n"}) \div 2

\* ------------------------------------------------- process environment
NotPresent == [kind |-> "NotPresent", val |-> <<>>]
NotUnicode == [kind |-> "NotUnicode", val |-> <<>>]
Present(v) == [kind |-> "Ok", val |-> v]
EnvVals == {NotPresent, NotUnicode, Present(<<>>), Present(<<"v">>)}

\* std::env::var(&var): Ok only for a present value that is valid Unicode
env_var_ok_nonempty(var) == env[var].kind = "Ok" /\ env[var].val # <<>>

env_var_never(var) == FALSE

env_var_ok(var) == env[var].kind = "Ok"

NoCall == [op |-> "none", var |-> <<>>, value |-> <<>>, result |-> "none",
           profile |-> "none", opened |-> FALSE, read |-> "none", wrote |-> <<>>]

\* ---------------------------------------------------------- Unix actions
\* get_profile()?; writeln!(profile, line)?; profile.flush()
UnixWrite(op, var, value, line) ==
    LET p == get_profile
    IN  /\ files' = p.fs
        /\ IF p.ok
           THEN /\ NumLines(content[p.file]) < MaxLines
                /\ content' = [content EXCEPT ![p.file] = Written(@, line)]
           ELSE content' = content
        /\ last' = [NoCall EXCEPT !.op = op, !.var = var, !.value = value,
                                  !.result = IF p.ok THEN "ok" ELSE "err",
                                  !.profile = p.file]

UnixFrame == UNCHANGED <<platform, home, env, keyAccess, registry, pc, local, writes>>

UnixSet(var, value) ==
    /\ platform = "unix"
    /\ UnixWrite("set", var, value, SetLine(var, value))
    /\ UnixFrame

UnixAppend(var, value) ==
    /\ platform = "unix"
    /\ UnixWrite("append", var, value, AppendLine(var, value))
    /\ UnixFrame

UnixPrepend(var, value) ==
    /\ platform = "unix"
    /\ UnixWrite("prepend", var, value, PrependLine(var, value))
    /\ UnixFrame

\* env::var(&var).map(|_| ()).or_else(|_| set(var, value))
UnixCheckOrSet(var, value) ==
    /\ platform = "unix"
    /\ IF env_var_ok(var)
       THEN /\ UNCHANGED <<files, content>>
            /\ last' = [NoCall EXCEPT !.op = "check_or_set", !.var = var,
                                      !.value = value, !.result = "ok"]
       ELSE UnixWrite("check_or_set", var, value, SetLine(var, value))
    /\ UnixFrame

\* ------------------------------------------------------ Windows registry
EnvironmentKey == <<"Environment">>
Garbage == <<"?">>
RegNames == Names \cup {Garbage}

NoValue == [present |-> FALSE, data |-> <<>>]
Stored(d) == [present |-> TRUE, data |-> d]

\* ToWide::from(s).wide points into the local Vec v, which is freed when from
\* returns: reading it yields the intended string or whatever replaced it
ToWide(s) == {s, Garbage}

\* RegOpenKeyExW(HKEY_CURRENT_USER, subkey.wide, 0, KEY_ALL_ACCESS, &mut key)
RegOpenKeyExW(sub) == sub = EnvironmentKey /\ keyAccess = "all"

\* the u16 units a read of the uninitialised half of the buffer can yield:
\* zero, some valid unit, an unpaired surrogate
Junk == {"NUL", "?", "LoneSurrogate"}

RECURSIVE TrimEndNul(_)
\* str.trim_end_matches('\0')
TrimEndNul(s) ==
    IF s # <<>> /\ s[Len(s)] = "NUL" THEN TrimEndNul(SubSeq(s, 1, Len(s) - 1)) ELSE s

\* one outcome of get_from_environment: RegGetValueW fills data and its
\* terminator and returns the length in bytes; set_len takes that number as a
\* length in u16 units, so the buffer ends with as many uninitialised units;
\* from_utf16(..).unwrap() panics on an unpaired surrogate, stored or
\* uninitialised
GetWith(var, sub, w, junk) ==
    IF sub # EnvironmentKey \/ keyAccess = "none" \/ ~registry[w].present
    THEN [kind |-> "err", val |-> <<>>]
    ELSE LET data == registry[w].data
             buffer == data \o <<"NUL">> \o [i \in 1..(Len(data) + 1) |-> junk]
         IN  IF \E i \in DOMAIN buffer : buffer[i] = "LoneSurrogate"
             THEN [kind |-> "panic", val |-> <<>>]
             ELSE [kind |-> "ok", val |-> TrimEndNul(buffer)]

get_from_environment(var) ==
    {GetWith(var, sub, w, junk) :
        sub \in ToWide(EnvironmentKey), w \in ToWide(var), junk \in Junk}

FirstSep(s) == CHOOSE i \in DOMAIN s : s[i] = ";" /\ \A j \in 1..(i - 1) : s[j] # ";"

RECURSIVE Split(_)
\* env_string.split(";").collect::<Vec<&str>>()
Split(s) ==
    IF \A i \in DOMAIN s : s[i] # ";" THEN <<s>>
    ELSE <<SubSeq(s, 1, FirstSep(s) - 1)>> \o Split(SubSeq(s, FirstSep(s) + 1, Len(s)))

RECURSIVE Join(_)
\* env_vec.as_slice().join(";")
Join(v) ==
    IF Len(v) = 0 THEN <<>>
    ELSE IF Len(v) = 1 THEN v[1]
    ELSE v[1] \o <<";">> \o Join(Tail(v))

\* env_vec.push(env.as_str()); env_vec.as_slice().join(";")
AppendValue(env_string, value) == Join(Append(Split(env_string), value))

\* env_vec.insert(0, env.as_str()); env_vec.as_slice().join(";")
PrependValue(env_string, value) == Join(<<value>> \o Split(env_string))

NewValue(op, env_string, value) ==
    IF op = "append" THEN AppendValue(env_string, value)
    ELSE PrependValue(env_string, value)

WinFrame == UNCHANGED <<platform, home, files, content, env, keyAccess, pc, local>>

\* set (windows): open the key, then RegSetValueExW under var.wide
WinSetBody(op, var, value) ==
    \E sub \in ToWide(EnvironmentKey) :
        IF RegOpenKeyExW(sub)
        THEN \E w \in ToWide(var) :
                /\ writes < MaxWrites
                /\ registry' = [registry EXCEPT ![w] = Stored(value)]
                /\ writes' = writes + 1
                /\ last' = [NoCall EXCEPT !.op = op, !.var = var, !.value = value,
                                          !.result = "ok", !.opened = TRUE, !.wrote = w]
        ELSE /\ UNCHANGED <<registry, writes>>
             /\ last' = [NoCall EXCEPT !.op = op, !.var = var, !.value = value,
                                       !.result = "err"]

WinSet(var, value) ==
    /\ platform = "windows"
    /\ WinSetBody("set", var, value)
    /\ WinFrame

\* env::var(&var).map(|_| ()).or_else(|_| set(var, value))
WinCheckOrSet(var, value) ==
    /\ platform = "windows"
    /\ IF env_var_ok(var)
       THEN /\ UNCHANGED <<registry, writes>>
            /\ last' = [NoCall EXCEPT !.op = "check_or_set", !.var = var,
                                      !.value = value, !.result = "ok"]
       ELSE WinSetBody("check_or_set", var, value)
    /\ WinFrame

\* append / prepend (windows): open the key, get_from_environment(&var)?,
\* then, if the key opened, write the joined list under var.wide
WinModify(op, var, value) ==
    \E sub \in ToWide(EnvironmentKey), g \in get_from_environment(var) :
        LET opened == RegOpenKeyExW(sub)
        IN  IF g.kind = "ok" /\ opened
            THEN \E w \in ToWide(var) :
                    /\ writes < MaxWrites
                    /\ registry' = [registry EXCEPT
                                       ![w] = Stored(NewValue(op, g.val, value))]
                    /\ writes' = writes + 1
                    /\ last' = [NoCall EXCEPT !.op = op, !.var = var, !.value = value,
                                              !.result = "ok", !.opened = TRUE,
                                              !.read = "ok", !.wrote = w]
            ELSE /\ UNCHANGED <<registry, writes>>
                 /\ last' = [NoCall EXCEPT !.op = op, !.var = var, !.value = value,
                                           !.result = IF g.kind # "ok" THEN g.kind
                                                      ELSE "err",
                                           !.opened = opened, !.read = g.kind]

WinAppend(var, value) ==
    /\ platform = "windows"
    /\ WinModify("append", var, value)
    /\ WinFrame

WinPrepend(var, value) ==
    /\ platform = "windows"
    /\ WinModify("prepend", var, value)
    /\ WinFrame

WinGet(var) ==
    /\ platform = "windows"
    /\ \E g \in get_from_environment(var) :
          last' = [NoCall EXCEPT !.op = "get", !.var = var, !.value = g.val,
                                 !.result = g.kind, !.read = g.kind]
    /\ UNCHANGED <<registry, writes>>
    /\ WinFrame

\* ------------------------------------------- two processes on the registry
Procs == {1, 2}
RaceSegments == {<<"a">>, <<"b">>}

FreshValue(p) ==
    IF registry[local[p].var].present THEN registry[local[p].var].data
    ELSE local[p].env_string

\* the list that is extended and written is the env_string read before
StaleValue(p) == local[p].env_string

RaceFrame == UNCHANGED <<platform, home, files, content, env, keyAccess, last>>

\* RegOpenKeyExW in append / prepend
RaceOpen(p) ==
    /\ pc[p] = "open"
    /\ \E sub \in ToWide(EnvironmentKey) :
          local' = [local EXCEPT ![p].opened = RegOpenKeyExW(sub)]
    /\ pc' = [pc EXCEPT ![p] = "read"]
    /\ UNCHANGED <<registry, writes>>
    /\ RaceFrame

\* let env_string = get_from_environment(&var)?
RaceRead(p) ==
    /\ pc[p] = "read"
    /\ \E g \in get_from_environment(local[p].var) :
          IF g.kind = "ok"
          THEN /\ local' = [local EXCEPT ![p].env_string = g.val, ![p].readAt = writes]
               /\ pc' = [pc EXCEPT ![p] = "write"]
          ELSE /\ local' = [local EXCEPT ![p].ret = g.kind]
               /\ pc' = [pc EXCEPT ![p] = "done"]
    /\ UNCHANGED <<registry, writes>>
    /\ RaceFrame

\* if result == ERROR_SUCCESS { split, push / insert, join, RegSetValueExW }
RaceWrite(p) ==
    /\ pc[p] = "write"
    /\ IF local[p].opened
       THEN \E w \in ToWide(local[p].var) :
               /\ registry' = [registry EXCEPT
                      ![w] = Stored(NewValue(local[p].op, StaleValue(p), local[p].value))]
               /\ writes' = writes + 1
               /\ local' = [local EXCEPT ![p].ret = "ok", ![p].wrote = w,
                                         ![p].wroteAt = writes + 1]
       ELSE /\ UNCHANGED <<registry, writes>>
            /\ local' = [local EXCEPT ![p].ret = "err"]
    /\ pc' = [pc EXCEPT ![p] = "done"]
    /\ RaceFrame

InitRace ==
    /\ platform = "windows"
    /\ home = "none"
    /\ files = [f \in ProfileNames |-> "absent"]
    /\ content = InitContent(files)
    /\ env = [n \in Names |-> NotPresent]
    /\ keyAccess \in {"all", "read"}
    /\ registry \in [RegNames -> {NoValue, Stored(<<>>), Stored(<<"c">>)}]
    /\ registry[Garbage] = NoValue
    /\ last = NoCall
    /\ writes = 0
    /\ pc = [p \in Procs |-> "open"]
    /\ local \in [Procs -> [op : {"append", "prepend"}, var : Names,
                            value : RaceSegments, opened : {FALSE},
                            env_string : {<<>>}, readAt : {0}, ret : {"none"},
                            wrote : {<<>>}, wroteAt : {0}]]

NextRace ==
    \/ \E p \in Procs : RaceOpen(p)
    \/ \E p \in Procs : RaceRead(p)
    \/ \E p \in Procs : RaceWrite(p)

SpecRace == InitRace /\ [][NextRace]_vars

\* ------------------------------------------------------------------ Init
InitUnix ==
    /\ platform = "unix"
    /\ home \in {"none", "rw", "ro"}
    /\ files \in [ProfileNames -> FileStates]
    /\ home = "none" => files = [f \in ProfileNames |-> "absent"]
    /\ content = InitContent(files)
    /\ env \in [Names -> EnvVals]
    /\ keyAccess = "none"
    /\ registry = [n \in RegNames |-> NoValue]

InitRegistry ==
    /\ registry \in [RegNames -> {NoValue, Stored(<<>>), Stored(<<"a">>),
                                   Stored(<<"b", ";", "a">>), Stored(<<"LoneSurrogate">>)}]
    /\ registry[Garbage] = NoValue

InitWindows ==
    /\ platform = "windows"
    /\ home = "none"
    /\ files = [f \in ProfileNames |-> "absent"]
    /\ content = InitContent(files)
    /\ env \in [Names -> EnvVals]
    /\ keyAccess \in {"all", "read", "none"}
    /\ InitRegistry

Init ==
    /\ InitUnix \/ InitWindows
    /\ last = NoCall
    /\ pc = <<>>
    /\ local = <<>>
    /\ writes = 0

Next ==
    \/ \E var \in Names, value \in Values : UnixSet(var, value)
    \/ \E var \in Names, value \in Values : UnixAppend(var, value)
    \/ \E var \in Names, value \in Values : UnixPrepend(var, value)
    \/ \E var \in Names, value \in Values : UnixCheckOrSet(var, value)
    \/ \E var \in Names, value \in Segments : WinSet(var, value)
    \/ \E var \in Names, value \in Segments : WinCheckOrSet(var, value)
    \/ \E var \in Names, value \in Segments : WinAppend(var, value)
    \/ \E var \in Names, value \in Segments : WinPrepend(var, value)
    \/ \E var \in Names : WinGet(var)

Spec == Init /\ [][Next]_vars

\* ------------------------------------------------------------ properties
ExportKw == <<"\n", "e", "x", "p", "o", "r", "t", " ">>
ExpectedSet(name, value) == ExportKw \o name \o <<"=">> \o value \o <<"\n">>
ExpectedAppend(name, value) ==
    ExportKw \o name \o <<"=", "\"">> \o value \o <<":", "$">> \o name \o <<"\"", "\n">>
ExpectedPrepend(name, value) ==
    ExportKw \o name \o <<"=", "\"", "$">> \o name \o <<":">> \o value \o <<"\"", "\n">>

Count(x, seq) == Cardinality({i \in DOMAIN seq : seq[i] = x})
IsPrefix(a, b) == Len(a) <= Len(b) /\ SubSeq(b, 1, Len(a)) = a
Added(old, new) == SubSeq(new, Len(old) + 1, Len(new))
\* one line of text starting with export NAME= : the leading newline, no
\* newline inside, the terminating newline
IsExportLine(line, name) ==
    /\ IsPrefix(ExportKw \o name \o <<"=">>, line)
    /\ line[Len(line)] = "\n"
    /\ Count("\n", line) = 2
\* the call went on to set: it reports set's error, or opened a profile, or
\* opened the registry key
CalledSet(l) == l.result = "err" \/ l.profile # "none" \/ l.opened
UnixMutator(l) == l.op \in {"set", "append", "prepend"}

\* C1: Windows registry backend: after a successful append or prepend of a
\* segment to a variable, the stored ';'-joined list contains that segment
\* exactly once.
C1_DedupOnce ==
    (/\ platform = "windows"
     /\ last.op \in {"append", "prepend"}
     /\ last.result = "ok"
     /\ last.wrote = last.var)
    => Count(last.value, Split(registry[last.var].data)) = 1

\* C2: Unix prepend(name, value): a successful call appends to the profile
\* exactly the text newline, export NAME="$NAME:VALUE", newline.
C2_PrependLineText ==
    [][(platform = "unix" /\ last'.op = "prepend" /\ last'.result = "ok")
        => content'[last'.profile] =
               content[last'.profile] \o ExpectedPrepend(last'.var, last'.value)]_vars

\* C3: Unix append(name, value): a successful call appends to the profile
\* exactly the text newline, export NAME="VALUE:$NAME", newline, with name and
\* value copied unescaped.
C3_AppendLineText ==
    [][(platform = "unix" /\ last'.op = "append" /\ last'.result = "ok")
        => content'[last'.profile] =
               content[last'.profile] \o ExpectedAppend(last'.var, last'.value)]_vars

C3_Witness ==
    /\ platform = "unix"
    /\ last.op = "append" /\ last.result = "ok"
    /\ last.value = <<"$", "H">>
    /\ content[last.profile] = <<"#">> \o ExpectedAppend(<<"P">>, <<"$", "H">>)

\* C4: check_or_set(name, value) when name is already set (reading it from
\* the process environment succeeds): the call returns success and leaves the
\* profile files, their contents and the registry unchanged.
C4_AlreadySetNoChange ==
    [][(last'.op = "check_or_set" /\ env[last'.var].kind = "Ok")
        => /\ last'.result = "ok"
           /\ files' = files
           /\ content' = content
           /\ registry' = registry]_vars

C4_Witness ==
    /\ last.op = "check_or_set"
    /\ env[last.var] = Present(<<"v">>)
    /\ last.result = "ok"
    /\ platform = "unix"
    /\ home = "rw"
    /\ files = [f \in ProfileNames |-> "absent"]

\* C5: check_or_set(name, value) when name is unset: the profile (or the
\* registry) ends as one direct set(name, value) call from the same state
\* leaves it, and the call returns what that set call returns.
C5_UnsetEqualsSet ==
    [][(last'.op = "check_or_set" /\ ~(env[last'.var].kind = "Ok"))
        => IF platform = "unix"
           THEN /\ files' = get_profile.fs
                /\ last'.result = (IF get_profile.ok THEN "ok" ELSE "err")
                /\ content' = IF get_profile.ok
                              THEN [content EXCEPT ![get_profile.file] =
                                       @ \o ExpectedSet(last'.var, last'.value)]
                              ELSE content
           ELSE \/ /\ last'.result = "ok"
                   /\ \E w \in ToWide(last'.var) :
                         registry' = [registry EXCEPT ![w] = Stored(last'.value)]
                \/ /\ last'.result = "err"
                   /\ registry' = registry]_vars

C5_Witness ==
    /\ platform = "unix"
    /\ last.op = "check_or_set"
    /\ env[last.var] = NotPresent
    /\ last.result = "ok"
    /\ content[last.profile] = <<"#">> \o ExpectedSet(last.var, last.value)

\* C6 (as stated): check_or_set is a no-op only when reading name succeeds with
\* a non-empty value; in every other case it delegates to set.
C6_NoopOnlyWhenNonEmpty ==
    [][last'.op = "check_or_set"
        => IF env[last'.var].kind = "Ok" /\ env[last'.var].val # <<>>
           THEN ~CalledSet(last') /\ content' = content /\ registry' = registry
           ELSE CalledSet(last')]_vars

\* C6 (amended): check_or_set is a no-op exactly when reading name from the
\* process environment succeeds, an empty value included; when name is absent
\* or not valid Unicode it delegates to set.
C6_NoopWhenReadable ==
    [][last'.op = "check_or_set"
        => IF env[last'.var].kind = "Ok"
           THEN ~CalledSet(last') /\ content' = content /\ registry' = registry
           ELSE CalledSet(last')]_vars

C6_Witness ==
    /\ last.op = "check_or_set"
    /\ env[last.var] = Present(<<>>)
    /\ last.result = "ok"
    /\ ~CalledSet(last)

\* C7: find_profile opens the first of .bash_profile, .bash_login, .profile
\* that can be opened, creating nothing; only when none of the three opens
\* does it create .bash_profile, and it never creates the other two.
FirstOpenable ==
    IF files[".bash_profile"] = "rw" THEN ".bash_profile"
    ELSE IF files[".bash_login"] = "rw" THEN ".bash_login"
    ELSE IF files[".profile"] = "rw" THEN ".profile"
    ELSE "none"
ReachedFindProfile ==
    /\ platform = "unix"
    /\ home # "none"
    /\ UnixMutator(last') \/ (last'.op = "check_or_set" /\ env[last'.var].kind # "Ok")
C7_ProfileFallback ==
    [][ReachedFindProfile
        => IF FirstOpenable # "none"
           THEN last'.profile = FirstOpenable /\ files' = files
           ELSE /\ files'[".bash_login"] = files[".bash_login"]
                /\ files'[".profile"] = files[".profile"]
                /\ IF files[".bash_profile"] = "absent" /\ home = "rw"
                   THEN /\ files'[".bash_profile"] = "rw"
                        /\ last'.profile = ".bash_profile"
                        /\ last'.result = "ok"
                   ELSE files' = files /\ last'.result = "err"]_vars

C7_Witness ==
    /\ platform = "unix"
    /\ last.profile = ".profile"
    /\ files[".bash_profile"] = "absent"
    /\ files[".bash_login"] = "absent"
    /\ content[".bash_profile"] = <<>>

\* C8: two processes appending or prepending different segments to the same
\* variable: when both read the stored value before either wrote, the final
\* stored value is the later writer's list, one segment longer than what was
\* read, and the earlier writer's segment has not been added to it.
BothReadFirst(p, q) ==
    /\ p # q
    /\ pc[p] = "done" /\ pc[q] = "done"
    /\ local[p].ret = "ok" /\ local[q].ret = "ok"
    /\ local[p].var = local[q].var
    /\ local[p].value # local[q].value
    /\ local[p].wrote = local[p].var /\ local[q].wrote = local[q].var
    /\ local[p].readAt = 0 /\ local[q].readAt = 0
    /\ local[p].wroteAt = 2
C8_LostUpdate ==
    \A p \in Procs, q \in Procs :
        BothReadFirst(p, q)
        => LET final == registry[local[p].var].data
           IN  /\ final = NewValue(local[p].op, local[p].env_string, local[p].value)
               /\ Len(Split(final)) = Len(Split(local[p].env_string)) + 1
               /\ Count(local[q].value, Split(final))
                      = Count(local[q].value, Split(local[p].env_string))

C8_Witness ==
    \E p \in Procs, q \in Procs :
        /\ BothReadFirst(p, q)
        /\ local[p].env_string = <<"c">> /\ local[q].env_string = <<"c">>
        /\ Count(local[p].value, Split(registry[local[p].var].data)) = 1
        /\ Count(local[q].value, Split(registry[local[p].var].data)) = 0

\* C9 (as stated): Unix backend: every call leaves the profile contents
\* unchanged except that each successful set, append or prepend, and each
\* successful check_or_set made while name is absent from the process
\* environment, adds exactly one export line at the end of the profile.
AppendsOneLine ==
    /\ last'.profile \in ProfileNames
    /\ \A f \in ProfileNames \ {last'.profile} : content'[f] = content[f]
    /\ IsPrefix(content[last'.profile], content'[last'.profile])
    /\ IsExportLine(Added(content[last'.profile], content'[last'.profile]), last'.var)
C9_LinePerAbsentCall ==
    [][platform = "unix"
        => IF /\ last'.result = "ok"
              /\ \/ UnixMutator(last')
                 \/ last'.op = "check_or_set" /\ env[last'.var].kind = "NotPresent"
           THEN AppendsOneLine
           ELSE content' = content]_vars

\* C9 (amended): as above, with the check_or_set calls that add a line being
\* those made while name cannot be read from the process environment: absent,
\* or present but not valid Unicode.
C9_LinePerUnreadableCall ==
    [][platform = "unix"
        => IF /\ last'.result = "ok"
              /\ \/ UnixMutator(last')
                 \/ last'.op = "check_or_set" /\ env[last'.var].kind # "Ok"
           THEN AppendsOneLine
           ELSE content' = content]_vars

C9_Witness ==
    /\ platform = "unix"
    /\ last.op = "set" /\ last.result = "ok"
    /\ content[last.profile] =
           <<"#">> \o ExpectedSet(<<"P">>, <<"X">>) \o ExpectedSet(<<"P">>, <<"X">>)

\* C10: Windows append and prepend: when reading the current value fails or
\* the Environment key cannot be opened, the call returns an error and the
\* stored values are left as they were.
C10_ErrorNoWrite ==
    [][(/\ platform = "windows"
        /\ last'.op \in {"append", "prepend"}
        /\ last'.read = "err" \/ ~last'.opened)
        => last'.result = "err" /\ registry' = registry]_vars
====
